---------------------------- MODULE Spec2Model ----------------------------
(***************************************************************************)
(* Matcher context protocol of percolator-matchers: the 320-byte context   *)
(* account shared by the five matcher programs (privacy, vol, jpy, event,  *)
(* macro), the security verification of matcher-common, and the Init /     *)
(* Match / Sync / Resolve handlers each program dispatches on a one-byte   *)
(* instruction tag.                                                        *)
(*                                                                         *)
(* The on-chain handlers are documented in percolator-matchers-analysis.md,*)
(* matcher-analysis.md, docs/ and the README files; the off-chain callers  *)
(* (keepers, solver, CLI) and the TypeScript pricing replicas are code.    *)
(*                                                                         *)
(* One context account is modelled.  Every handler is a function from the  *)
(* context and the call's accounts/data to a result code and a new         *)
(* context; a call that returns an error leaves the account as it was      *)
(* (the handler returns before it writes).                                 *)
(***************************************************************************)
EXTENDS Integers, Sequences, FiniteSets, TLC

VARIABLES ctx, now, call, solver, calc

vars == <<ctx, now, call, solver, calc>>

----------------------------------------------------------------------------
(* Bounds of the model *)

\* number of distinct non-zero public keys
NumKeys == 2
\* the clock stops here
MaxTime == 202
\* the lifetime trade counter is not advanced beyond this
MaxTrades == 2
\* the daily volume accumulator is not advanced beyond this
MaxDayVolume == 400

----------------------------------------------------------------------------
(* Program constants *)

CTX_SIZE == 320
\* a u64 word; TLC integers are 32-bit, so the word is modelled 31 bits wide
U64_MAX == 2147483647
BPS_DENOM == 10000
MAX_PROBABILITY == 1000000
EDGE_FACTOR_CAP == 10000000
EDGE_SCALE == 1000000
VOL_STALE_SLOTS == 100
EVENT_STALE_SLOTS == 200
VOL_MARK_SCALE == 1000000

TAG_MATCH == 0
TAG_INIT == 2
TAG_SYNC == 3
TAG_RESOLVE == 4

Variants == {"privacy", "vol", "jpy", "event", "macro"}

\* the 8-byte magic of each matcher, as its ASCII bytes
ZeroMagic == <<0, 0, 0, 0, 0, 0, 0, 0>>
PRIVACY_MAGIC == <<80, 82, 73, 86, 77, 65, 84, 67>>
VOL_MAGIC == <<86, 79, 76, 77, 65, 84, 67, 72>>
JPY_MAGIC == <<74, 80, 89, 77, 65, 84, 67, 72>>
EVENT_MAGIC == <<69, 86, 78, 84, 77, 65, 84, 67>>
MACRO_MAGIC == <<77, 65, 67, 79, 77, 65, 84, 67>>

Magic(v) ==
  CASE v = "privacy" -> PRIVACY_MAGIC
    [] v = "vol" -> VOL_MAGIC
    [] v = "jpy" -> JPY_MAGIC
    [] v = "event" -> EVENT_MAGIC
    [] v = "macro" -> MACRO_MAGIC

ZeroKey == 0
Keys == 1..NumKeys

----------------------------------------------------------------------------
(* Arithmetic *)

Min(a, b) == IF a < b THEN a ELSE b
Max(a, b) == IF a > b THEN a ELSE b

\* u64 checked_add: -1 stands for None
CheckedAdd(a, b) == IF a < 0 \/ b < 0 THEN -1
                    ELSE IF a > U64_MAX - b THEN -1 ELSE a + b

\* u32/u64 saturating_sub
SaturatingSub(a, b) == IF a > b THEN a - b ELSE 0

\* floor(a * b / c) through a double-width intermediate:
\* a*b = a*c*(b \div c) + a*(b % c)
MulDiv(a, b, c) == a * (b \div c) + (a * (b % c)) \div c

\* matcher-common compute_exec_price: price * (10000 + spread) / 10000 with a
\* u128 intermediate; the u64 result overflows to an error (-1).
\* price = 10000*k + r, so price*spread/10000 = k*spread + r*spread/10000.
compute_exec_price(price, spread_bps) ==
  LET k == price \div BPS_DENOM
      r == price % BPS_DENOM
      markup == k * spread_bps + (r * spread_bps) \div BPS_DENOM
  IN CheckedAdd(price, markup)

----------------------------------------------------------------------------
(* Pricing engines *)

\* vol-matcher VolatilityRegime::spread_multiplier; from_u8 defaults an
\* out-of-range byte to Normal
vol_regime_multiplier(regime) ==
  CASE regime = 0 -> 50
    [] regime = 1 -> 75
    [] regime = 2 -> 100
    [] regime = 3 -> 150
    [] regime = 4 -> 250
    [] OTHER -> 100

\* variant: an out-of-range byte is priced as Crisis
macro_regime_multiplier_crisis_default(regime) ==
  CASE regime = 0 -> 60
    [] regime = 1 -> 100
    [] regime = 2 -> 200
    [] regime = 3 -> 125
    [] OTHER -> 200

\* macro-matcher MacroRegime::spread_multiplier; from_u8 defaults an
\* out-of-range byte to Stagnation
macro_regime_multiplier(regime) ==
  CASE regime = 0 -> 60
    [] regime = 1 -> 100
    [] regime = 2 -> 200
    [] regime = 3 -> 125
    [] OTHER -> 100

\* variant: the factor 4 is left out of the denominator
edge_denominator_no4(p) ==
  LET q == MAX_PROBABILITY - p
      a == p \div 1000
      b == p % 1000
  IN (a * q + (b * q) \div 1000) \div 1000000000

\* event-matcher edge denominator p * (1e6 - p) * 4 / 1e12 in unsigned integer
\* arithmetic.  With p = 1000*a + b and q = 1e6 - p:
\*   p*q = 1000*(a*q) + b*q, and floor(4*p*q / 1e12) =
\*   floor((a*q + floor(b*q / 1000)) / 250000000).
edge_denominator(p) ==
  LET q == MAX_PROBABILITY - p
      a == p \div 1000
      b == p % 1000
  IN (a * q + (b * q) \div 1000) \div 250000000

edge_factor(p) ==
  IF edge_denominator(p) > 0
    THEN Min(EDGE_SCALE \div edge_denominator(p), EDGE_FACTOR_CAP)
    ELSE EDGE_FACTOR_CAP

\* total spread of each variant; -1 when the u64 sum overflows
privacy_total_spread(c) ==
  LET sum == CheckedAdd(c.base, c.widen)
  IN IF sum < 0 THEN -1 ELSE Min(sum, c.max)

vol_total_spread(c) ==
  LET adjusted_vov == MulDiv(c.widen, vol_regime_multiplier(c.regime), 100)
      sum == CheckedAdd(c.base, adjusted_vov)
  IN IF sum < 0 THEN -1 ELSE Min(sum, c.max)

macro_total_spread(c) ==
  LET adjusted_regime == MulDiv(c.widen, macro_regime_multiplier(c.regime), 100)
      sum == CheckedAdd(CheckedAdd(c.base, adjusted_regime), c.signal_adj)
  IN IF sum < 0 THEN -1 ELSE Min(sum, c.max)

\* variant: the sum is not capped at max_spread
event_total_spread_uncapped(c) ==
  LET adjusted_edge == MulDiv(c.widen, edge_factor(c.price), EDGE_SCALE)
  IN CheckedAdd(CheckedAdd(c.base, adjusted_edge), c.signal_adj)

event_total_spread(c) ==
  LET adjusted_edge == MulDiv(c.widen, edge_factor(c.price), EDGE_SCALE)
      sum == CheckedAdd(CheckedAdd(c.base, adjusted_edge), c.signal_adj)
  IN IF sum < 0 THEN -1 ELSE Min(sum, c.max)

KYC_INSTITUTIONAL == 3

\* variant: every tier gets the discount
jpy_total_spread_discount_all(c, user_kyc_level) ==
  Min(SaturatingSub(c.base, c.widen), c.max)

jpy_total_spread(c, user_kyc_level) ==
  LET discount == IF user_kyc_level >= KYC_INSTITUTIONAL THEN c.widen ELSE 0
      effective_spread == SaturatingSub(c.base, discount)
  IN Min(effective_spread, c.max)

----------------------------------------------------------------------------
(* matcher-common: security verification *)

\* the minimum size verify_magic asks for is the size of a context
MAGIC_MIN_SIZE == CTX_SIZE

\* variant: only the size is examined
verify_magic_size_only(c, expected_magic) ==
  c.size >= MAGIC_MIN_SIZE

\* verify_magic: minimum size, then the magic at offset 64
verify_magic(c, expected_magic) ==
  c.size >= MAGIC_MIN_SIZE /\ c.magic = expected_magic

\* variant: the magic is examined before the signature
verify_lp_pda_magic_first(key, is_signer, c, expected_magic) ==
  IF ~verify_magic(c, expected_magic) THEN "UninitializedAccount"
  ELSE IF ~is_signer THEN "MissingRequiredSignature"
  ELSE IF key # c.lp_pda THEN "InvalidAccountData"
  ELSE "Ok"

\* verify_lp_pda: signer, then magic, then the LP PDA stored at offset 80
verify_lp_pda(key, is_signer, c, expected_magic) ==
  IF ~is_signer THEN "MissingRequiredSignature"
  ELSE IF ~verify_magic(c, expected_magic) THEN "UninitializedAccount"
  ELSE IF key # c.lp_pda THEN "InvalidAccountData"
  ELSE "Ok"

\* a context counts as initialized once its magic is non-zero
IsInitialized(c) == c.magic # ZeroMagic

\* variant: only the size is examined
verify_init_preconditions_size_only(c) ==
  IF c.size < CTX_SIZE THEN "AccountDataTooSmall" ELSE "Ok"

\* verify_init_preconditions: correct size, not already initialized
verify_init_preconditions(c) ==
  IF c.size < CTX_SIZE THEN "AccountDataTooSmall"
  ELSE IF IsInitialized(c) THEN "AccountAlreadyInitialized"
  ELSE "Ok"

\* write_header: magic, version = 1, mode, LP PDA
write_header(c, magic, mode, lp_pda) ==
  [c EXCEPT !.magic = magic, !.version = 1, !.mode = mode, !.lp_pda = lp_pda]

\* write_exec_price: the price goes into the return buffer
write_exec_price(c, price) == [c EXCEPT !.ret = price]

\* the magic check the Sync / Resolve / RegimeUpdate handlers make before
\* they look at the oracle account
handler_verify_magic(c, prog) == verify_magic(c, Magic(prog))

----------------------------------------------------------------------------
(* The context account *)

\* a zeroed account of the given data length
ZeroCtx(size) ==
  [size |-> size, ret |-> 0, magic |-> ZeroMagic, version |-> 0, mode |-> 0,
   lp_pda |-> ZeroKey, oracle |-> ZeroKey, oracle2 |-> ZeroKey,
   base |-> 0, widen |-> 0, max |-> 0,
   price |-> 0, regime |-> 0, severity |-> 0, signal_adj |-> 0,
   last_update |-> 0, is_resolved |-> 0, outcome |-> 0,
   last_exec |-> 0, total_volume |-> 0, total_trades |-> 0,
   min_kyc |-> 0, same_jur |-> 0, blocked |-> 0,
   daily_cap |-> 0, day_volume |-> 0, day_reset |-> 0]

\* result of a handler: an error code leaves the account as it was
Fail(c, err) == [res |-> err, ctx |-> c]
Done(c) == [res |-> "Ok", ctx |-> c]

----------------------------------------------------------------------------
(* Init (tag 0x02) *)

\* Only the privacy-matcher validates base_spread <= max_spread
\* (InvalidSpreadConfig); the other programs have no such error and store
\* the spread parameters as given.
\* a.lp: accounts[0] key; a.oracle, a.oracle2: oracle / solver accounts or
\* pubkeys of the instruction; a.base, a.widen, a.max: spread parameters;
\* a.mode; a.prob: initial probability (event); a.min_kyc, a.same_jur,
\* a.blocked, a.daily_cap: compliance configuration (jpy)
process_init(prog, c, a) ==
  LET pre == verify_init_preconditions(c)
      hdr == write_header(c, Magic(prog), a.mode, a.lp)
      cfg == [hdr EXCEPT !.base = a.base, !.widen = a.widen, !.max = a.max]
  IN IF pre # "Ok" THEN Fail(c, pre)
     ELSE IF prog = "privacy" /\ a.base > a.max
       THEN Fail(c, "InvalidSpreadConfig")
     ELSE CASE prog = "privacy" -> Done([cfg EXCEPT !.oracle = a.oracle])
            [] prog = "vol" ->
                 Done([cfg EXCEPT !.oracle = a.oracle, !.oracle2 = a.oracle2])
            [] prog = "macro" -> Done([cfg EXCEPT !.oracle = a.oracle])
            [] prog = "event" ->
                 IF a.prob > MAX_PROBABILITY THEN Fail(c, "InvalidProbability")
                 ELSE Done([cfg EXCEPT !.oracle = a.oracle, !.price = a.prob])
            [] prog = "jpy" ->
                 Done([cfg EXCEPT !.oracle = a.oracle,
                                  !.min_kyc = a.min_kyc,
                                  !.same_jur = a.same_jur,
                                  !.blocked = a.blocked,
                                  !.daily_cap = a.daily_cap])

----------------------------------------------------------------------------
(* Match (tag 0x00) *)

\* write the price and, where the layout has them, the lifetime statistics
finish_match(c, spread, size, counted) ==
  LET exec == IF spread < 0 THEN -1 ELSE compute_exec_price(c.price, spread)
      vol == CheckedAdd(c.total_volume, size)
      priced == write_exec_price(c, exec)
  IN IF exec < 0 THEN Fail(c, "ArithmeticOverflow")
     ELSE IF ~counted THEN Done(priced)
     ELSE IF vol < 0 THEN Fail(c, "ArithmeticOverflow")
     ELSE Done([priced EXCEPT !.last_exec = exec,
                              !.total_trades = c.total_trades + 1,
                              !.total_volume = vol])

privacy_match(c, key, is_signer, size) ==
  LET v == verify_lp_pda(key, is_signer, c, PRIVACY_MAGIC)
  IN IF v # "Ok" THEN Fail(c, v)
     ELSE IF c.price = 0 THEN Fail(c, "OraclePriceNotSet")
     ELSE finish_match(c, privacy_total_spread(c), size, TRUE)

\* variant: data exactly VOL_STALE_SLOTS old counts as stale
vol_match_stale_at_window(c, key, is_signer, size, slot) ==
  LET v == verify_lp_pda(key, is_signer, c, VOL_MAGIC)
  IN IF v # "Ok" THEN Fail(c, v)
     ELSE IF c.price = 0 THEN Fail(c, "OracleNotSynced")
     ELSE IF SaturatingSub(slot, c.last_update) >= VOL_STALE_SLOTS
       THEN Fail(c, "OracleStale")
     ELSE finish_match(c, vol_total_spread(c), size, FALSE)

vol_match(c, key, is_signer, size, slot) ==
  LET v == verify_lp_pda(key, is_signer, c, VOL_MAGIC)
  IN IF v # "Ok" THEN Fail(c, v)
     ELSE IF c.price = 0 THEN Fail(c, "OracleNotSynced")
     ELSE IF SaturatingSub(slot, c.last_update) > VOL_STALE_SLOTS
       THEN Fail(c, "OracleStale")
     ELSE finish_match(c, vol_total_spread(c), size, FALSE)

event_match(c, key, is_signer, size, slot) ==
  LET v == verify_lp_pda(key, is_signer, c, EVENT_MAGIC)
  IN IF v # "Ok" THEN Fail(c, v)
     ELSE IF c.is_resolved # 0 THEN Fail(c, "MarketResolved")
     ELSE IF c.price = 0 THEN Fail(c, "ProbabilityNotSet")
     ELSE IF SaturatingSub(slot, c.last_update) > EVENT_STALE_SLOTS
       THEN Fail(c, "OracleStale")
     ELSE finish_match(c, event_total_spread(c), size, FALSE)

\* macro-matcher Match: LP PDA verification, regime-adaptive spread, price,
\* statistics; a mark of 0 (real rate at or below -500 bps) is priced as 0
macro_match(c, key, is_signer, size, slot) ==
  LET v == verify_lp_pda(key, is_signer, c, MACRO_MAGIC)
  IN IF v # "Ok" THEN Fail(c, v)
     ELSE finish_match(c, macro_total_spread(c), size, TRUE)

\* jpy-matcher compliance pipeline (compliance.rs), in the order of the code:
\* KYC level, expiry, blocked jurisdiction, daily volume cap, same
\* jurisdiction.  u: the user's WhitelistEntry (kyc, expiry, jur); lp_jur: the
\* jurisdiction of the LP owner's WhitelistEntry, -1 when it is not supplied.
DAY_SECONDS == 86400

Pow2(n) == IF n = 0 THEN 1 ELSE IF n = 1 THEN 2 ELSE IF n = 2 THEN 4
           ELSE IF n = 3 THEN 8 ELSE IF n = 4 THEN 16 ELSE IF n = 5 THEN 32
           ELSE IF n = 6 THEN 64 ELSE 128

isJurisdictionBlocked(jurisdiction, blockedMask) ==
  IF jurisdiction >= 8 THEN FALSE
  ELSE (blockedMask \div Pow2(jurisdiction)) % 2 = 1

isKycExpired(expiryTimestamp, currentTimestamp) ==
  currentTimestamp > expiryTimestamp

\* variant: the window ends as soon as a full day has elapsed
effective_day_volume_early(c, ts) ==
  IF ts >= c.day_reset + DAY_SECONDS THEN 0 ELSE c.day_volume

effective_day_volume(c, ts) ==
  IF ts > c.day_reset + DAY_SECONDS THEN 0 ELSE c.day_volume

\* variant: the cap is compared with the volume before this trade
jpy_compliance_cap_before_trade(c, u, lp_jur, size, ts) ==
  IF u.kyc < c.min_kyc THEN "InsufficientKycLevel"
  ELSE IF isKycExpired(u.expiry, ts) THEN "KycExpired"
  ELSE IF isJurisdictionBlocked(u.jur, c.blocked) THEN "JurisdictionBlocked"
  ELSE IF c.daily_cap > 0 /\ effective_day_volume(c, ts) > c.daily_cap
    THEN "DailyVolumeLimitExceeded"
  ELSE IF c.same_jur = 1 /\ lp_jur >= 0 /\ lp_jur # u.jur
    THEN "JurisdictionMismatch"
  ELSE "Ok"

jpy_compliance(c, u, lp_jur, size, ts) ==
  IF u.kyc < c.min_kyc THEN "InsufficientKycLevel"
  ELSE IF isKycExpired(u.expiry, ts) THEN "KycExpired"
  ELSE IF isJurisdictionBlocked(u.jur, c.blocked) THEN "JurisdictionBlocked"
  ELSE IF c.daily_cap > 0 /\ effective_day_volume(c, ts) + size > c.daily_cap
    THEN "DailyVolumeLimitExceeded"
  ELSE IF c.same_jur = 1 /\ lp_jur >= 0 /\ lp_jur # u.jur
    THEN "JurisdictionMismatch"
  ELSE "Ok"

\* variant: the day window is rolled over in the account before the
\* compliance checks are made, and a rejection keeps that write
jpy_match_reset_first(c, key, is_signer, size, u, lp_jur, ts) ==
  LET v == verify_lp_pda(key, is_signer, c, JPY_MAGIC)
      k == jpy_compliance(c, u, lp_jur, size, ts)
      rolled == IF ts > c.day_reset + DAY_SECONDS
                  THEN [c EXCEPT !.day_volume = 0, !.day_reset = ts] ELSE c
      r == finish_match(rolled, jpy_total_spread(c, u.kyc), size, FALSE)
  IN IF v # "Ok" THEN Fail(c, v)
     ELSE IF c.price = 0 THEN Fail(c, "OraclePriceNotSet")
     ELSE IF k # "Ok" THEN [res |-> k, ctx |-> rolled]
     ELSE IF r.res # "Ok" THEN r
     ELSE Done([r.ctx EXCEPT !.day_volume = rolled.day_volume + size])

jpy_match(c, key, is_signer, size, u, lp_jur, ts) ==
  LET v == verify_lp_pda(key, is_signer, c, JPY_MAGIC)
      k == jpy_compliance(c, u, lp_jur, size, ts)
      r == finish_match(c, jpy_total_spread(c, u.kyc), size, FALSE)
  IN IF v # "Ok" THEN Fail(c, v)
     ELSE IF c.price = 0 THEN Fail(c, "OraclePriceNotSet")
     ELSE IF k # "Ok" THEN Fail(c, k)
     ELSE IF r.res # "Ok" THEN r
     ELSE Done([r.ctx EXCEPT
                  !.day_volume = effective_day_volume(c, ts) + size,
                  !.day_reset = IF ts > c.day_reset + DAY_SECONDS
                                  THEN ts ELSE c.day_reset])

\* dispatch of tag 0x00
process_match(prog, c, key, is_signer, size, u, lp_jur, slot) ==
  CASE prog = "privacy" -> privacy_match(c, key, is_signer, size)
    [] prog = "vol" -> vol_match(c, key, is_signer, size, slot)
    [] prog = "event" -> event_match(c, key, is_signer, size, slot)
    [] prog = "macro" -> macro_match(c, key, is_signer, size, slot)
    [] prog = "jpy" -> jpy_match(c, key, is_signer, size, u, lp_jur, slot)

----------------------------------------------------------------------------
(* Sync / OracleUpdate (tag 0x03) *)

MAX_SIGNAL_SEVERITY == 3
MAX_VOL_REGIME == 4
MAX_MACRO_REGIME == 3

\* variant: the price is stored before the zero check
privacy_oracle_update_write_first(c, key, is_signer, d) ==
  IF ~handler_verify_magic(c, "privacy") THEN Fail(c, "UninitializedAccount")
  ELSE IF ~is_signer \/ key # c.oracle THEN Fail(c, "UnauthorizedSolver")
  ELSE IF d.price = 0
    THEN [res |-> "OraclePriceNotSet", ctx |-> [c EXCEPT !.price = d.price]]
  ELSE Done([c EXCEPT !.price = d.price])

\* privacy-matcher OracleUpdate: accounts[0] is the solver and must sign and
\* equal the stored solver pubkey; d.price
privacy_oracle_update(c, key, is_signer, d) ==
  IF ~handler_verify_magic(c, "privacy") THEN Fail(c, "UninitializedAccount")
  ELSE IF ~is_signer \/ key # c.oracle THEN Fail(c, "UnauthorizedSolver")
  ELSE IF d.price = 0 THEN Fail(c, "OraclePriceNotSet")
  ELSE Done([c EXCEPT !.price = d.price])

\* jpy-matcher OracleUpdate: authority-signed, verifies magic, rejects zero
jpy_oracle_update(c, key, is_signer, d) ==
  LET v == verify_lp_pda(key, is_signer, c, JPY_MAGIC)
  IN IF v # "Ok" THEN Fail(c, v)
     ELSE IF d.price = 0 THEN Fail(c, "OraclePriceNotSet")
     ELSE Done([c EXCEPT !.price = d.price])

\* variant: the regime of an earlier sync is kept
vol_oracle_sync_keeps_regime(c, key, key2, d, slot) ==
  LET mark == IF d.vol_bps > U64_MAX \div VOL_MARK_SCALE THEN -1
              ELSE d.vol_bps * VOL_MARK_SCALE
  IN IF ~handler_verify_magic(c, "vol") THEN Fail(c, "UninitializedAccount")
     ELSE IF key # c.oracle \/ key2 # c.oracle2
       THEN Fail(c, "OracleAccountMismatch")
     ELSE IF d.regime > MAX_VOL_REGIME THEN Fail(c, "InvalidRegime")
     ELSE IF mark < 0 THEN Fail(c, "ArithmeticOverflow")
     ELSE Done([c EXCEPT !.price = mark, !.last_update = slot])

\* vol-matcher OracleSync: accounts are the context, the VarianceTracker and
\* the VolatilityIndex; none has to sign.  d.vol_bps, d.regime
vol_oracle_sync(c, key, key2, d, slot) ==
  LET mark == IF d.vol_bps > U64_MAX \div VOL_MARK_SCALE THEN -1
              ELSE d.vol_bps * VOL_MARK_SCALE
  IN IF ~handler_verify_magic(c, "vol") THEN Fail(c, "UninitializedAccount")
     ELSE IF key # c.oracle \/ key2 # c.oracle2
       THEN Fail(c, "OracleAccountMismatch")
     ELSE IF d.regime > MAX_VOL_REGIME THEN Fail(c, "InvalidRegime")
     ELSE IF mark < 0 THEN Fail(c, "ArithmeticOverflow")
     ELSE Done([c EXCEPT !.price = mark, !.regime = d.regime,
                         !.last_update = slot])

\* variant: a resolved market is still synced
event_probability_sync_unguarded(c, key, d, slot) ==
  IF ~handler_verify_magic(c, "event") THEN Fail(c, "UninitializedAccount")
  ELSE IF key # c.oracle THEN Fail(c, "OracleMismatch")
  ELSE IF d.price > MAX_PROBABILITY THEN Fail(c, "InvalidProbability")
  ELSE IF d.severity > MAX_SIGNAL_SEVERITY
    THEN Fail(c, "InvalidSignalSeverity")
  ELSE Done([c EXCEPT !.price = d.price, !.severity = d.severity,
                      !.signal_adj = d.signal_adj, !.last_update = slot])

\* event-matcher ProbabilitySync: accounts are the context and the event
\* oracle, which does not have to sign.  d.price, d.severity, d.signal_adj
event_probability_sync(c, key, d, slot) ==
  IF ~handler_verify_magic(c, "event") THEN Fail(c, "UninitializedAccount")
  ELSE IF key # c.oracle THEN Fail(c, "OracleMismatch")
  ELSE IF c.is_resolved # 0 THEN Fail(c, "MarketResolved")
  ELSE IF d.price > MAX_PROBABILITY THEN Fail(c, "InvalidProbability")
  ELSE IF d.severity > MAX_SIGNAL_SEVERITY
    THEN Fail(c, "InvalidSignalSeverity")
  ELSE Done([c EXCEPT !.price = d.price, !.severity = d.severity,
                      !.signal_adj = d.signal_adj, !.last_update = slot])

\* macro-matcher IndexSync: accounts are the context and the macro oracle,
\* which does not have to sign.  d.price (mark), d.severity, d.signal_adj
macro_index_sync(c, key, d, slot) ==
  IF ~handler_verify_magic(c, "macro") THEN Fail(c, "UninitializedAccount")
  ELSE IF key # c.oracle THEN Fail(c, "OracleMismatch")
  ELSE IF d.severity > MAX_SIGNAL_SEVERITY
    THEN Fail(c, "InvalidSignalSeverity")
  ELSE Done([c EXCEPT !.price = d.price, !.severity = d.severity,
                      !.signal_adj = d.signal_adj, !.last_update = slot])

\* dispatch of tag 0x03
process_sync(prog, c, key, is_signer, key2, d, slot) ==
  CASE prog = "privacy" -> privacy_oracle_update(c, key, is_signer, d)
    [] prog = "jpy" -> jpy_oracle_update(c, key, is_signer, d)
    [] prog = "vol" -> vol_oracle_sync(c, key, key2, d, slot)
    [] prog = "event" -> event_probability_sync(c, key, d, slot)
    [] prog = "macro" -> macro_index_sync(c, key, d, slot)

----------------------------------------------------------------------------
(* Tag 0x04: Resolve (event-matcher), RegimeUpdate (macro-matcher) *)

\* a second Resolve on a resolved market is refused
resolve_once(c) == IF c.is_resolved # 0 THEN "MarketResolved" ELSE "Ok"

\* variant: the oracle account does not have to sign
event_resolve_unsigned(c, key, is_signer, outcome) ==
  IF ~handler_verify_magic(c, "event") THEN Fail(c, "UninitializedAccount")
  ELSE IF key # c.oracle THEN Fail(c, "OracleMismatch")
  ELSE IF resolve_once(c) # "Ok" THEN Fail(c, resolve_once(c))
  ELSE IF outcome \notin {0, 1} THEN Fail(c, "InvalidOutcome")
  ELSE Done([c EXCEPT !.is_resolved = 1, !.outcome = outcome,
                      !.price = IF outcome = 1 THEN MAX_PROBABILITY ELSE 0])

\* event-matcher Resolve: accounts are the context and the event oracle,
\* which must sign and equal the stored oracle; data is the outcome byte
event_resolve(c, key, is_signer, outcome) ==
  IF ~handler_verify_magic(c, "event") THEN Fail(c, "UninitializedAccount")
  ELSE IF ~is_signer THEN Fail(c, "MissingRequiredSignature")
  ELSE IF key # c.oracle THEN Fail(c, "OracleMismatch")
  ELSE IF resolve_once(c) # "Ok" THEN Fail(c, resolve_once(c))
  ELSE IF outcome \notin {0, 1} THEN Fail(c, "InvalidOutcome")
  ELSE Done([c EXCEPT !.is_resolved = 1, !.outcome = outcome,
                      !.price = IF outcome = 1 THEN MAX_PROBABILITY ELSE 0])

\* variant: a regime change starts the statistics afresh
macro_regime_update_reset_stats(c, key, is_signer, regime) ==
  IF ~handler_verify_magic(c, "macro") THEN Fail(c, "UninitializedAccount")
  ELSE IF ~is_signer THEN Fail(c, "MissingRequiredSignature")
  ELSE IF key # c.oracle THEN Fail(c, "OracleMismatch")
  ELSE IF regime > MAX_MACRO_REGIME THEN Fail(c, "InvalidRegime")
  ELSE Done([c EXCEPT !.regime = regime, !.total_trades = 0,
                      !.total_volume = 0])

\* macro-matcher RegimeUpdate: requires the oracle signer; data is the regime
macro_regime_update(c, key, is_signer, regime) ==
  IF ~handler_verify_magic(c, "macro") THEN Fail(c, "UninitializedAccount")
  ELSE IF ~is_signer THEN Fail(c, "MissingRequiredSignature")
  ELSE IF key # c.oracle THEN Fail(c, "OracleMismatch")
  ELSE IF regime > MAX_MACRO_REGIME THEN Fail(c, "InvalidRegime")
  ELSE Done([c EXCEPT !.regime = regime])

\* variant: vol-matcher takes a regime on tag 0x04 as macro-matcher does
process_tag4_vol_regime(prog, c, key, is_signer, byte) ==
  CASE prog = "event" -> event_resolve(c, key, is_signer, byte)
    [] prog = "macro" -> macro_regime_update(c, key, is_signer, byte)
    [] prog = "vol" -> Done([c EXCEPT !.regime = byte])
    [] OTHER -> Fail(c, "InvalidInstructionData")

\* dispatch of tag 0x04: the other three programs have no such instruction
process_tag4(prog, c, key, is_signer, byte) ==
  CASE prog = "event" -> event_resolve(c, key, is_signer, byte)
    [] prog = "macro" -> macro_regime_update(c, key, is_signer, byte)
    [] OTHER -> Fail(c, "InvalidInstructionData")

----------------------------------------------------------------------------
(* Inputs of the calls *)

\* keys a caller can put into an instruction's account list
CallKeys == {ZeroKey} \cup Keys

NoEntry == [kyc |-> 0, expiry |-> 0, jur |-> 0]

SyncRec(p, v, r, g) ==
  [price |-> p, vol_bps |-> v, regime |-> r, severity |-> g[1],
   signal_adj |-> g[2]]

\* the last instruction: program, accounts, data and result.  size, user and
\* lp_jur are the trade size and the WhitelistEntry accounts of a Match.
NoCall == [op |-> "none", prog |-> "none", key |-> ZeroKey, signer |-> FALSE,
           key2 |-> ZeroKey, arg |-> 0, size |-> 0, user |-> NoEntry,
           lp_jur |-> -1, data |-> SyncRec(0, 0, 0, <<0, 0>>),
           res |-> "none"]

InitArgsOf(prog, LpKeys, OracleKeys, Cfgs, Probs, JpyCfgs) ==
  {[lp |-> lp, oracle |-> o, oracle2 |-> o2, mode |-> 0,
    base |-> s[1], widen |-> s[2], max |-> s[3], prob |-> p,
    min_kyc |-> j[1], same_jur |-> j[2], blocked |-> j[3], daily_cap |-> j[4]] :
     lp \in LpKeys,
     o \in IF prog = "jpy" THEN {ZeroKey} ELSE OracleKeys,
     o2 \in IF prog = "vol" THEN OracleKeys ELSE {ZeroKey},
     s \in Cfgs,
     p \in IF prog = "event" THEN Probs ELSE {0},
     j \in IF prog = "jpy" THEN JpyCfgs ELSE {<<0, 0, 0, 0>>}}

----------------------------------------------------------------------------
(* The privacy solver service (app/privacy-solver) *)

\* at most this many intents are added to the queue
MaxIntents == 2
\* the solver's wall clock (unix seconds) stops here
SolverMaxTime == 3

\* SolverConfig.maxSlippageBps
maxSlippageBps == 500

\* a payload that does not decrypt
Garbage == [size |-> 0, maxSlippageBps |-> 0, deadline |-> 0, opens |-> FALSE]

NoIntent == [seq |-> 0, size |-> 0, maxSlippageBps |-> 0, deadline |-> 0]

IntentSeqs == 1 .. MaxIntents

\* the service after construction: not running, empty queue.  seq is the
\* position of an intent among the addIntent calls; cur is the decrypted
\* intent of the poll cycle in flight and validatedAt the clock value its
\* validateIntent read; oraclePrice is the cycle's local of that name and
\* tradePrice the price handed to the latest executeTrade; last is the
\* intent the latest shift() returned;
\* taken, sent and executed count, for each intent, the shift() that
\* returned it, the OracleUpdate transactions sent for it and the
\* executeTrade calls made for it
NewSolver ==
  [running |-> FALSE, pc |-> "stopped", intentQueue |-> <<>>,
   cur |-> NoIntent, validatedAt |-> 0, added |-> 0,
   oraclePrice |-> 0, tradePrice |-> 0,
   last |-> [seq |-> 0, payload |-> Garbage],
   taken |-> [s \in IntentSeqs |-> 0],
   sent |-> [s \in IntentSeqs |-> 0],
   executed |-> [s \in IntentSeqs |-> 0]]

\* variant: the head of the queue is read and left in the queue
shift_keep(q) == [head |-> Head(q), rest |-> q]

\* Array.prototype.shift on a queue that is not empty
shift(q) == [head |-> Head(q), rest |-> Tail(q)]

\* decryptIntent: null (NoIntent) when nacl.box.open or the parse throws
decryptIntent(intent) ==
  IF intent.payload.opens
  THEN [seq |-> intent.seq, size |-> intent.payload.size,
        maxSlippageBps |-> intent.payload.maxSlippageBps,
        deadline |-> intent.payload.deadline]
  ELSE NoIntent

\* variant: only the deadline is looked at
validateIntent_deadline_only(intent, t) ==
  ~(intent.deadline > 0 /\ t > intent.deadline)

\* validateIntent at unix time t
validateIntent(intent, t) ==
  IF intent.deadline > 0 /\ t > intent.deadline THEN FALSE
  ELSE IF intent.maxSlippageBps > maxSlippageBps THEN FALSE
  ELSE IF intent.size = 0 THEN FALSE
  ELSE TRUE

\* fetchOraclePrice: the placeholder price, $100.00 in e6
fetchOraclePrice == 100000000

\* start(): the loop begins with a poll
start ==
  /\ ~solver.running /\ solver.pc = "stopped"
  /\ solver' = [solver EXCEPT !.running = TRUE, !.pc = "poll"]
  /\ UNCHANGED <<ctx, now, call, calc>>

\* stop(): the loop ends when it next tests the flag
stop ==
  /\ solver.running
  /\ solver' = [solver EXCEPT !.running = FALSE]
  /\ UNCHANGED <<ctx, now, call, calc>>

\* while (this.running) is false after the sleep: the loop is left
loopExit ==
  /\ ~solver.running /\ solver.pc = "poll"
  /\ solver' = [solver EXCEPT !.pc = "stopped"]
  /\ UNCHANGED <<ctx, now, call, calc>>

\* addIntent, from the WebSocket handler between any two steps of the loop
addIntent(Payloads) ==
  \E p \in Payloads :
    /\ solver.added < MaxIntents
    /\ solver' = [solver EXCEPT
                    !.added = @ + 1,
                    !.intentQueue =
                      Append(@, [seq |-> solver.added + 1, payload |-> p])]
    /\ UNCHANGED <<ctx, now, call, calc>>

\* pollAndProcess up to its first await: shift, decrypt, validate.  With an
\* empty queue it returns and nothing changes.
pollAndProcess ==
  /\ solver.running /\ solver.pc = "poll"
  /\ solver.intentQueue # <<>>
  /\ LET sh == shift(solver.intentQueue)
         intent == sh.head
         decrypted == decryptIntent(intent)
         go == decrypted # NoIntent /\ validateIntent(decrypted, now)
     IN solver' = [solver EXCEPT
                     !.intentQueue = sh.rest,
                     !.taken[intent.seq] = @ + 1,
                     !.last = intent,
                     !.cur = IF go THEN decrypted ELSE NoIntent,
                     !.validatedAt = IF go THEN now ELSE 0,
                     !.pc = IF go THEN "fetch" ELSE "poll"]
  /\ UNCHANGED <<ctx, now, call, calc>>

\* await this.fetchOraclePrice() returns
fetched ==
  /\ solver.pc = "fetch"
  /\ solver' = [solver EXCEPT !.pc = "update",
                              !.oraclePrice = fetchOraclePrice]
  /\ UNCHANGED <<ctx, now, call, calc>>

\* variant: a failed update is logged and the cycle goes on
updateOraclePrice_ignore_failure(SolverKeys) ==
  /\ solver.pc = "update"
  /\ \E key \in SolverKeys, lands \in BOOLEAN :
      LET d == SyncRec(solver.oraclePrice, 0, 0, <<0, 0>>)
          r == process_sync("privacy", ctx, key, TRUE, ZeroKey, d, now)
      IN /\ ctx' = IF lands THEN r.ctx ELSE ctx
         /\ call' = IF lands
                    THEN [NoCall EXCEPT !.op = "Sync", !.prog = "privacy",
                                        !.key = key, !.signer = TRUE,
                                        !.data = d, !.res = r.res]
                    ELSE NoCall
         /\ solver' = [solver EXCEPT
                         !.sent[solver.cur.seq] = @ + 1,
                         !.pc = "execute"]
  /\ UNCHANGED <<now, calc>>

\* updateOraclePrice: tag 0x03 with the price, solver key as signer, sent to
\* the matcher; sendAndConfirmTransaction throws when the transaction does
\* not land or the program fails it, and start() catches that
updateOraclePrice(SolverKeys) ==
  /\ solver.pc = "update"
  /\ \E key \in SolverKeys, lands \in BOOLEAN :
      LET d == SyncRec(solver.oraclePrice, 0, 0, <<0, 0>>)
          r == process_sync("privacy", ctx, key, TRUE, ZeroKey, d, now)
          ok == lands /\ r.res = "Ok"
      IN /\ ctx' = IF lands THEN r.ctx ELSE ctx
         /\ call' = IF lands
                    THEN [NoCall EXCEPT !.op = "Sync", !.prog = "privacy",
                                        !.key = key, !.signer = TRUE,
                                        !.data = d, !.res = r.res]
                    ELSE NoCall
         /\ solver' = [solver EXCEPT
                         !.sent[solver.cur.seq] = @ + 1,
                         !.pc = IF ok THEN "execute" ELSE "poll",
                         !.cur = IF ok THEN @ ELSE NoIntent,
                         !.validatedAt = IF ok THEN @ ELSE 0,
                         !.oraclePrice = IF ok THEN @ ELSE 0]
  /\ UNCHANGED <<now, calc>>

\* executeTrade(decrypted, oraclePrice)
executeTrade ==
  /\ solver.pc = "execute"
  /\ solver' = [solver EXCEPT
                  !.executed[solver.cur.seq] = @ + 1,
                  !.tradePrice = solver.oraclePrice,
                  !.pc = "poll", !.cur = NoIntent, !.validatedAt = 0,
                  !.oraclePrice = 0]
  /\ UNCHANGED <<ctx, now, call, calc>>

\* Date.now() moves on by a second
solverClock ==
  /\ now < SolverMaxTime
  /\ now' = now + 1
  /\ UNCHANGED <<ctx, call, solver, calc>>

----------------------------------------------------------------------------
(* Intent encryption (encryption.ts of the privacy solver) *)

\* one 64-bit word of the source holds WORD values; a 128-bit size is two
\* words.  Scaled to 15 bits so that a two-word value fits the checker's
\* integers
WORD == 32768
\* a u16 holds this many values
U16 == 65536
\* byte length of a serialized intent
INTENT_LEN == 26

\* no evaluation of an off-chain function yet
NoCalc == [fn |-> "none"]

\* serializeIntent: size as two little-endian unsigned words (low, high),
\* maxSlippageBps as u16, deadline as a signed word
serializeIntent(intent) ==
  [len |-> INTENT_LEN,
   sizeLow |-> intent.size % WORD,
   sizeHigh |-> (intent.size \div WORD) % WORD,
   slip |-> intent.maxSlippageBps % U16,
   deadline |-> intent.deadline % WORD]

\* deserializeIntent: both words of the size are read unsigned
\* (getBigUint64) and joined as (sizeHigh << 64) | sizeLow; the deadline is
\* read signed (getBigInt64)
deserializeIntent(data) ==
  IF data.len < INTENT_LEN THEN [error |-> "Invalid intent data length"]
  ELSE [size |-> data.sizeHigh * WORD + data.sizeLow,
        maxSlippageBps |-> data.slip,
        deadline |-> IF data.deadline >= WORD \div 2
                     THEN data.deadline - WORD ELSE data.deadline]

\* X25519 public key of a secret key
publicKey(secretKey) == <<"pub", secretKey>>

\* nacl.box: authenticated encryption under the key the two parties share
nacl_box(message, nonce, theirPublicKey, mySecretKey) ==
  [shared |-> {theirPublicKey[2], mySecretKey}, nonce |-> nonce,
   message |-> message]

\* nacl.box.open: null unless key and nonce are those of the box
nacl_box_open(box, nonce, theirPublicKey, mySecretKey) ==
  IF box.shared = {theirPublicKey[2], mySecretKey} /\ box.nonce = nonce
  THEN box.message
  ELSE [len |-> 0]

\* encrypt: a fresh ephemeral key pair and nonce for each call; the
\* sender's secret key is not used
encrypt(message, recipientPublicKey, senderSecretKey, ephemeral, nonce) ==
  [encrypted |-> nacl_box(message, nonce, recipientPublicKey, ephemeral),
   nonce |-> nonce,
   ephemeralPubkey |-> publicKey(ephemeral)]

\* decrypt: throws when nacl.box.open returns null
decrypt(encrypted, nonce, senderPublicKey, recipientSecretKey) ==
  nacl_box_open(encrypted, nonce, senderPublicKey, recipientSecretKey)

----------------------------------------------------------------------------
(* Pricing replicas of the tests and the backtest (tests/*.test.ts) *)

\* the replicas are evaluated at probabilities that are multiples of this
\* (0.1%), where the double-precision products are exact
PROB_STEP == 1000

\* floor(n * 1000^k / m) by long division, for n < m * 1000
RECURSIVE DivPow1000(_, _, _)
DivPow1000(n, k, m) ==
  IF k = 0 THEN n \div m
  ELSE (n \div m) * 1000 ^ k + DivPow1000((n % m) * 1000, k - 1, m)

\* computeEdgeFactor of event-matcher.test.ts, in floating point:
\*   denom = p * (1e6 - p) * 4 / 1e12;  denom <= 0 -> 10_000_000;
\*   else min(floor(1e6 / denom), 10_000_000).
\* For p a multiple of 1000, with m = (p/1000) * ((1e6 - p)/1000):
\*   1e6 / denom = 2.5e11 / m, which reaches the cap exactly when m <= 25000.
computeEdgeFactor(probability) ==
  LET m == (probability \div PROB_STEP) *
           ((MAX_PROBABILITY - probability) \div PROB_STEP)
  IN IF m <= 0 THEN EDGE_FACTOR_CAP
     ELSE IF m <= 25000 THEN EDGE_FACTOR_CAP
     ELSE Min(DivPow1000(250, 3, m), EDGE_FACTOR_CAP)

\* total spread inside computeEventExecPrice
computeEventTotalSpread(probability, baseSpread, edgeSpread, maxSpread, signalAdj) ==
  LET edgeFactor == computeEdgeFactor(probability)
      adjustedEdge == MulDiv(edgeSpread, edgeFactor, EDGE_SCALE)
  IN Min(baseSpread + adjustedEdge + signalAdj, maxSpread)

\* computeEventExecPrice: floor(probability * (10000 + totalSpread) / 10000)
computeEventExecPrice(probability, baseSpread, edgeSpread, maxSpread, signalAdj) ==
  LET totalSpread == computeEventTotalSpread(probability, baseSpread,
                                             edgeSpread, maxSpread, signalAdj)
  IN MulDiv(BPS_DENOM + totalSpread, probability, BPS_DENOM)

----------------------------------------------------------------------------
(* The macro keeper (app/macro-keeper) *)

\* real rates from -MaxRealRate to MaxRealRate basis points are evaluated
MaxRealRate == 700

\* +5.00%, keeps the mark price positive
RATE_OFFSET == 500

\* variant: the shifted rate is scaled without the floor at zero
computeMarkPrice_unfloored(realRateBps) ==
  (realRateBps + RATE_OFFSET) * 10000

\* computeMarkPrice
computeMarkPrice(realRateBps) ==
  LET shifted == realRateBps + RATE_OFFSET
  IN IF shifted <= 0 THEN 0 ELSE shifted * 10000

\* MacroSignalDetector keeps at most this many samples of each rate
maxHistory == 50

\* MACRO_SIGNAL_SPREAD, by severity NONE, LOW, HIGH, CRITICAL (0..3)
MACRO_SIGNAL_SPREAD == <<0, 15, 50, 100>>

Abs(x) == IF x < 0 THEN -x ELSE x

\* the detector after construction
NewDetector ==
  [sofrHistory |-> <<>>, inflationHistory |-> <<>>, realRateHistory |-> <<>>]

\* push onto a history
pushHistory(history, x) == Append(history, x)

\* the oldest sample is dropped once more than maxHistory are held
trimHistory(history) ==
  IF Len(history) > maxHistory THEN Tail(history) ELSE history

detectYieldCurveInversion(realRateBps) ==
  IF realRateBps < -200 THEN 3
  ELSE IF realRateBps < -50 THEN 2
  ELSE IF realRateBps < 0 THEN 1
  ELSE 0

detectRateVelocity(history) ==
  IF Len(history) < 2 THEN 0
  ELSE LET change == Abs(history[Len(history)] - history[Len(history) - 1])
       IN IF change > 50 THEN 3
          ELSE IF change > 25 THEN 2
          ELSE IF change > 10 THEN 1
          ELSE 0

detectInflationShock(history) ==
  IF Len(history) < 2 THEN 0
  ELSE LET change == Abs(history[Len(history)] - history[Len(history) - 1])
       IN IF change > 50 THEN 3
          ELSE IF change > 25 THEN 2
          ELSE 0

\* sum of |recent[i] - recent[i-1]| for i = 2 .. n
RECURSIVE SumAbsChanges(_, _)
SumAbsChanges(recent, n) ==
  IF n < 2 THEN 0
  ELSE Abs(recent[n] - recent[n - 1]) + SumAbsChanges(recent, n - 1)

\* average change over the last ten samples: above 20 HIGH, above 10 LOW
detectRateVolatilityClustering(history) ==
  IF Len(history) < 10 THEN 0
  ELSE LET recent == SubSeq(history, Len(history) - 9, Len(history))
           total == SumAbsChanges(recent, 10)
       IN IF total > 20 * 9 THEN 2
          ELSE IF total > 10 * 9 THEN 1
          ELSE 0

\* MacroSignalDetector.detect: records the sample, returns the highest
\* severity of the four detectors
detect(det, nominalBps, inflationBps, realRateBps) ==
  LET sofr == trimHistory(pushHistory(det.sofrHistory, nominalBps))
      infl == trimHistory(pushHistory(det.inflationHistory, inflationBps))
      real == trimHistory(pushHistory(det.realRateHistory, realRateBps))
      worst == Max(Max(detectYieldCurveInversion(realRateBps),
                       detectRateVelocity(sofr)),
                   Max(detectInflationShock(infl),
                       detectRateVolatilityClustering(real)))
  IN [det |-> [sofrHistory |-> sofr, inflationHistory |-> infl,
               realRateHistory |-> real],
      severity |-> worst]

\* computeSpread
computeSpread(severity) == MACRO_SIGNAL_SPREAD[severity + 1]

\* FredDataSource.fetchRealRate on a (SOFR, breakeven inflation) reading
fetchRealRate(reading) ==
  [nominalBps |-> reading[1], inflationBps |-> reading[2],
   realRateBps |-> reading[1] - reading[2]]

\* MacroOracleSync.syncOracle: one keeper cycle on a FRED reading; sends
\* IndexSync with the mark price, the severity and the spread adjustment
syncOracle(det, c, reading, oracle, slot) ==
  LET f == fetchRealRate(reading)
      signal == detect(det, f.nominalBps, f.inflationBps, f.realRateBps)
      data == SyncRec(computeMarkPrice(f.realRateBps), 0, 0,
                      <<signal.severity, computeSpread(signal.severity)>>)
      r == process_sync("macro", c, oracle, FALSE, ZeroKey, data, slot)
  IN [det |-> signal.det, data |-> data, res |-> r.res, ctx |-> r.ctx]

----------------------------------------------------------------------------
(* The jpy command line (cli/jpy) *)

\* checkCompliance: the status line printed for a WhitelistEntry
checkCompliance(now_s, expiry) ==
  IF now_s < expiry THEN "VALID" ELSE "EXPIRED"

----------------------------------------------------------------------------
(* The state machine *)

\* a created, zeroed 320-byte account; or a shorter account that is not a
\* matcher context but carries some matcher's magic and a key at the header
\* offsets
Init ==
  /\ ctx \in {ZeroCtx(CTX_SIZE)} \cup
             {[ZeroCtx(CTX_SIZE - 1) EXCEPT !.magic = Magic(v), !.lp_pda = 1] :
                v \in Variants}
  /\ now = 0
  /\ call = NoCall
  /\ solver = NewSolver
  /\ calc = NoCalc

\* tag 0x02
InitAct(Args) ==
  \E prog \in Variants :
    \E a \in Args[prog] :
      LET r == process_init(prog, ctx, a)
      IN /\ ctx' = r.ctx
         /\ call' = [NoCall EXCEPT !.op = "Init", !.prog = prog, !.key = a.lp,
                                    !.signer = TRUE, !.res = r.res]
         /\ UNCHANGED <<now, solver, calc>>

\* tag 0x00
MatchAct(KeySet, Signers, SizeSet, Users, LpJurs) ==
  \E prog \in Variants, key \in KeySet, is_signer \in Signers :
    \E size \in SizeSet[prog], u \in Users[prog], lp_jur \in LpJurs[prog] :
      LET r == process_match(prog, ctx, key, is_signer, size, u, lp_jur, now)
      IN /\ r.res = "Ok" => /\ r.ctx.total_trades <= MaxTrades
                            /\ r.ctx.day_volume <= MaxDayVolume
         /\ ctx' = r.ctx
         /\ call' = [NoCall EXCEPT !.op = "Match", !.prog = prog, !.key = key,
                                    !.signer = is_signer, !.size = size,
                                    !.user = u, !.lp_jur = lp_jur,
                                    !.res = r.res]
         /\ UNCHANGED <<now, solver, calc>>

\* tag 0x03
SyncAct(KeySet, Signers, Data) ==
  \E prog \in Variants, key \in KeySet, is_signer \in Signers :
    \E key2 \in IF prog = "vol" THEN KeySet ELSE {ZeroKey},
       d \in Data[prog] :
      LET r == process_sync(prog, ctx, key, is_signer, key2, d, now)
      IN /\ ctx' = r.ctx
         /\ call' = [NoCall EXCEPT !.op = "Sync", !.prog = prog, !.key = key,
                                    !.signer = is_signer, !.key2 = key2,
                                    !.data = d, !.res = r.res]
         /\ UNCHANGED <<now, solver, calc>>

\* tag 0x04
Tag4Act(KeySet, Signers, Bytes) ==
  \E prog \in Variants, key \in KeySet, is_signer \in Signers :
   \E byte \in Bytes[prog] :
    LET r == process_tag4(prog, ctx, key, is_signer, byte)
    IN /\ ctx' = r.ctx
       /\ call' = [NoCall EXCEPT !.op = "Tag4", !.prog = prog, !.key = key,
                                  !.signer = is_signer, !.arg = byte,
                                  !.res = r.res]
       /\ UNCHANGED <<now, solver, calc>>

\* the cluster's clock (slot / unix time) advances between calls
TickAct(Steps) ==
  \E d \in Steps :
    /\ now + d <= MaxTime
    /\ now' = now + d
    /\ call' = NoCall
    /\ UNCHANGED <<ctx, solver, calc>>

----------------------------------------------------------------------------
(* Spec: the pricing and lifecycle behaviour.  The market operator, the     *)
(* updater and the host use one key; calls come from all five programs,     *)
(* signed or unsigned, with the full range of signal data.                  *)

\* (base_spread_bps, widening parameter, max_spread_bps) of an Init
SpreadCfgs == {<<20, 40, 200>>, <<150, 100, 200>>, <<300, 0, 200>>}
InitProbs == {0, 500000, MAX_PROBABILITY + 1}
\* (min_kyc_level, require_same_jurisdiction, blocked mask, daily cap)
JpyCfgs == {<<1, 1, 3, 300>>, <<0, 0, 0, 0>>}

\* the configuration with base above max is offered to the privacy program,
\* which refuses it, and to the event program
InitArgs ==
  [prog \in Variants |->
    InitArgsOf(prog, {1}, {1},
               IF prog \in {"privacy", "event"} THEN SpreadCfgs
               ELSE {s \in SpreadCfgs : s[1] <= s[3]},
               InitProbs, JpyCfgs)]

\* (signal_severity, signal_adjusted_spread) pairs of a Sync
SignalPairs == {<<0, 0>>, <<3, 75>>, <<3, U64_MAX>>, <<4, 0>>}

SyncData ==
  [prog \in Variants |->
    CASE prog \in {"privacy", "jpy"} ->
           {SyncRec(p, 0, 0, <<0, 0>>) : p \in {0, 1000000, U64_MAX}}
      [] prog = "vol" ->
           {SyncRec(0, 0, 2, <<0, 0>>), SyncRec(0, 45, 0, <<0, 0>>),
            SyncRec(0, 45, 4, <<0, 0>>), SyncRec(0, 45, 5, <<0, 0>>),
            SyncRec(0, U64_MAX, 2, <<0, 0>>)}
      [] prog = "event" ->
           {SyncRec(500000, 0, 0, g) : g \in SignalPairs}
           \cup {SyncRec(p, 0, 0, <<0, 0>>) :
                    p \in {0, 10000, MAX_PROBABILITY + 1}}
      [] prog = "macro" ->
           {SyncRec(5000000, 0, 0, g) : g \in SignalPairs}
           \cup {SyncRec(0, 0, 0, <<0, 0>>)}]

\* trade sizes of a Match
Sizes ==
  [prog \in Variants |->
    IF prog = "jpy" THEN {100, 250} ELSE {100}]

\* WhitelistEntry of the user (jpy): institutional, basic, expired, blocked
UserEntries ==
  [prog \in Variants |->
    IF prog = "jpy"
      THEN {[kyc |-> 3, expiry |-> MaxTime, jur |-> 2],
            [kyc |-> 0, expiry |-> MaxTime, jur |-> 2],
            [kyc |-> 3, expiry |-> 100, jur |-> 2],
            [kyc |-> 3, expiry |-> MaxTime, jur |-> 0]}
      ELSE {NoEntry}]
LpJurisdictions ==
  [prog \in Variants |->
    IF prog = "jpy" THEN {-1, 3} ELSE {-1}]

\* the byte of a tag 0x04 instruction
Tag4Bytes ==
  [prog \in Variants |->
    IF prog = "macro" THEN {2, 4} ELSE {0, 1, 2}]

TickSteps == {101}

DoInit == InitAct(InitArgs)
DoMatch == MatchAct({1}, BOOLEAN, Sizes, UserEntries, LpJurisdictions)
DoSync == SyncAct({1}, BOOLEAN, SyncData)
DoTag4 == Tag4Act({1}, BOOLEAN, Tag4Bytes)
Tick == TickAct(TickSteps)

Next == DoInit \/ DoMatch \/ DoSync \/ DoTag4 \/ Tick

Spec == Init /\ [][Next]_vars

----------------------------------------------------------------------------
(* SpecAuth: the authorization behaviour.  Every key, zero included, calls  *)
(* every program, signed or unsigned; the signal data is one valid value    *)
(* per variant and the clock stands still.                                  *)

AuthInitArgs ==
  [prog \in Variants |->
    InitArgsOf(prog, Keys, Keys,
               IF prog = "privacy" THEN {<<20, 40, 200>>, <<300, 0, 200>>}
               ELSE {<<20, 40, 200>>},
               {500000}, {<<0, 0, 0, 0>>})]

AuthSyncData ==
  [prog \in Variants |->
    CASE prog \in {"privacy", "jpy"} -> {SyncRec(1000000, 0, 0, <<0, 0>>)}
      [] prog = "vol" -> {SyncRec(0, 45, 2, <<0, 0>>)}
      [] prog = "event" -> {SyncRec(10000, 0, 0, <<1, 10>>)}
      [] prog = "macro" -> {SyncRec(5000000, 0, 0, <<1, 10>>)}]

AuthSizes ==
  [prog \in Variants |->
    {100}]
AuthUserEntries ==
  [prog \in Variants |->
    IF prog = "jpy" THEN {[kyc |-> 3, expiry |-> MaxTime, jur |-> 2]}
    ELSE {NoEntry}]
AuthLpJurisdictions ==
  [prog \in Variants |->
    {-1}]
AuthTag4Bytes ==
  [prog \in Variants |->
    {0, 1, 2}]

AuthInit == InitAct(AuthInitArgs)
AuthMatch ==
  MatchAct(CallKeys, BOOLEAN, AuthSizes, AuthUserEntries, AuthLpJurisdictions)
AuthSync == SyncAct(CallKeys, BOOLEAN, AuthSyncData)
AuthTag4 == Tag4Act(CallKeys, BOOLEAN, AuthTag4Bytes)

NextAuth == AuthInit \/ AuthMatch \/ AuthSync \/ AuthTag4

SpecAuth == Init /\ [][NextAuth]_vars

----------------------------------------------------------------------------
(* SpecVol: the freshness window of the vol-matcher.  One vol context, the   *)
(* clock advances in steps that put a Match exactly at, and one slot past,  *)
(* the staleness window.                                                    *)

VolInitArgs ==
  [prog \in Variants |->
    IF prog = "vol"
      THEN InitArgsOf(prog, {1}, {1}, {<<20, 40, 200>>}, {0}, {<<0, 0, 0, 0>>})
      ELSE {}]

VolSyncData ==
  [prog \in Variants |->
    IF prog = "vol"
      THEN {SyncRec(0, 0, 2, <<0, 0>>), SyncRec(0, 45, 2, <<0, 0>>),
            SyncRec(0, 45, 4, <<0, 0>>), SyncRec(0, 2147, 2, <<0, 0>>)}
      ELSE {}]

VolSizes == [prog \in Variants |-> IF prog = "vol" THEN {100} ELSE {}]
VolUserEntries == [prog \in Variants |-> {NoEntry}]
VolLpJurisdictions == [prog \in Variants |-> {-1}]
VolTickSteps == {VOL_STALE_SLOTS, VOL_STALE_SLOTS + 1}

VolInit == InitAct(VolInitArgs)
VolMatch ==
  MatchAct(Keys, BOOLEAN, VolSizes, VolUserEntries, VolLpJurisdictions)
VolSync == SyncAct(Keys, BOOLEAN, VolSyncData)
VolTick == TickAct(VolTickSteps)

NextVol == VolInit \/ VolMatch \/ VolSync \/ VolTick

SpecVol == Init /\ [][NextVol]_vars

----------------------------------------------------------------------------
(* SpecJpy: the compliance pipeline and the daily volume window of the      *)
(* jpy-matcher.  One jpy context; the clock advances by one day and by one  *)
(* day and a second, so a Match meets a window exactly one day old and one  *)
(* that has just been crossed.                                              *)

\* number of days the clock runs
MaxDays == 2
JpyMaxTime == MaxDays * DAY_SECONDS + MaxDays

JpyInitArgs ==
  [prog \in Variants |->
    IF prog = "jpy"
      THEN InitArgsOf(prog, {1}, {1}, {<<20, 40, 200>>, <<20, 5, 100>>}, {0},
                      {<<1, 1, 3, 300>>, <<0, 0, 0, 0>>})
      ELSE {}]

JpySyncData ==
  [prog \in Variants |->
    IF prog = "jpy" THEN {SyncRec(1000000, 0, 0, <<0, 0>>)} ELSE {}]

JpySizes == [prog \in Variants |-> IF prog = "jpy" THEN {100, 250} ELSE {}]

\* WhitelistEntry of the user: valid in each of the four tiers; expired;
\* blocked jurisdiction; and entries failing several steps at once
JpyUserEntries ==
  [prog \in Variants |->
    {[kyc |-> 3, expiry |-> JpyMaxTime, jur |-> 2],
     [kyc |-> 2, expiry |-> JpyMaxTime, jur |-> 2],
     [kyc |-> 1, expiry |-> JpyMaxTime, jur |-> 2],
     [kyc |-> 0, expiry |-> JpyMaxTime, jur |-> 2],
     [kyc |-> 3, expiry |-> DAY_SECONDS, jur |-> 2],
     [kyc |-> 3, expiry |-> JpyMaxTime, jur |-> 0],
     [kyc |-> 0, expiry |-> DAY_SECONDS, jur |-> 0],
     [kyc |-> 3, expiry |-> DAY_SECONDS, jur |-> 0]}]
JpyLpJurisdictions == [prog \in Variants |-> {-1, 2, 3}]
JpyTickSteps == {DAY_SECONDS, DAY_SECONDS + 1}

JpyInit == InitAct(JpyInitArgs)
JpyMatch ==
  MatchAct({1}, {TRUE}, JpySizes, JpyUserEntries, JpyLpJurisdictions)
JpySync == SyncAct({1}, {TRUE}, JpySyncData)
JpyTick ==
  \E d \in JpyTickSteps :
    /\ now + d <= JpyMaxTime
    /\ now' = now + d
    /\ call' = NoCall
    /\ UNCHANGED <<ctx, solver, calc>>

NextJpy == JpyInit \/ JpyMatch \/ JpySync \/ JpyTick

SpecJpy == Init /\ [][NextJpy]_vars

----------------------------------------------------------------------------
(* SpecSolver: the solver service against a privacy-matcher context.       *)

\* the context is initialized for the solver's key or for another key
SolverInitArgs ==
  [prog \in Variants |->
    IF prog = "privacy"
    THEN InitArgsOf(prog, {1}, Keys, {<<20, 40, 200>>}, {0}, {<<0, 0, 0, 0>>})
    ELSE {}]

\* decrypted contents of the intents users send: deadline none (0), before
\* the epoch, or a time the clock reaches; slippage at and above the
\* configured maximum; size zero or not
IntentPayloads ==
  {Garbage} \cup
  {[size |-> z, maxSlippageBps |-> b, deadline |-> d, opens |-> TRUE] :
     z \in {0, 5}, b \in {maxSlippageBps, maxSlippageBps + 1},
     d \in {-1, 0, 2}}

SolverInit == InitAct(SolverInitArgs)
SolverAddIntent == addIntent(IntentPayloads)
SolverUpdate == updateOraclePrice({1})

NextSolver ==
  \/ SolverInit \/ start \/ stop \/ loopExit \/ SolverAddIntent
  \/ pollAndProcess \/ fetched \/ SolverUpdate \/ executeTrade
  \/ solverClock

SpecSolver == Init /\ [][NextSolver]_vars

----------------------------------------------------------------------------
(* SpecCalc: the off-chain functions, each applied to inputs drawn from   *)
(* bounded sets; calc holds the last evaluation.                           *)

\* secret keys: solver, user, ephemeral ones
SecretKeys == {1, 2, 3}
Nonces == {1, 2}

\* sizes over the whole signed two-word range, long and short
IntentSizes ==
  {-(WORD * (WORD \div 2)), -1000000, -1, 1, 1000000,
   WORD * (WORD \div 2) - 1}
IntentSlippages == {0, 50, U16 - 1}
IntentDeadlines == {-(WORD \div 2), -1, 0, 3600, WORD \div 2 - 1}

\* the user encrypts an intent to the solver, who decrypts it with the
\* nonce and ephemeral key received and some secret key
calcRoundTrip ==
  \E size \in IntentSizes, slip \in IntentSlippages,
     deadline \in IntentDeadlines :
    \E solverKey \in {1}, userKey \in {2}, ephemeral \in SecretKeys \ {1},
       nonce \in Nonces, openKey \in SecretKeys :
      LET intent == [size |-> size, maxSlippageBps |-> slip,
                     deadline |-> deadline]
          e == encrypt(serializeIntent(intent), publicKey(solverKey),
                       userKey, ephemeral, nonce)
          d == decrypt(e.encrypted, e.nonce, e.ephemeralPubkey, openKey)
      IN /\ calc = NoCalc
         /\ calc' = [fn |-> "roundtrip", intent |-> intent,
                     solverKey |-> solverKey, openKey |-> openKey,
                     parsed |-> deserializeIntent(d)]
         /\ UNCHANGED <<ctx, now, call, solver>>

\* probabilities 0%, 0.1%, ..., 100%
Probabilities == {PROB_STEP * a : a \in 0 .. MAX_PROBABILITY \div PROB_STEP}
\* (baseSpread, edgeSpread, maxSpread, signalAdj) of the event tests
EventCfgs == {<<20, 50, 500, 0>>, <<20, 50, 500, 75>>, <<200, 200, 300, 100>>}

\* the edge factor, total spread and execution price of the event matcher
\* and of its replica, at p and at 1 - p
calcEdge ==
  \E p \in Probabilities, cfg \in EventCfgs :
    LET c == [ZeroCtx(CTX_SIZE) EXCEPT
                !.base = cfg[1], !.widen = cfg[2], !.max = cfg[3],
                !.signal_adj = cfg[4], !.price = p]
    IN /\ calc = NoCalc
       /\ calc' = [fn |-> "edge", p |-> p, cfg |-> cfg,
                   chain |-> edge_factor(p),
                   chain_mirror |-> edge_factor(MAX_PROBABILITY - p),
                   chain_spread |-> event_total_spread(c),
                   chain_price |->
                     compute_exec_price(p, event_total_spread(c)),
                   replica |-> computeEdgeFactor(p),
                   replica_mirror |-> computeEdgeFactor(MAX_PROBABILITY - p),
                   replica_spread |->
                     computeEventTotalSpread(p, cfg[1], cfg[2], cfg[3],
                                             cfg[4]),
                   replica_price |->
                     computeEventExecPrice(p, cfg[1], cfg[2], cfg[3], cfg[4])]
       /\ UNCHANGED <<ctx, now, call, solver>>

\* regime bytes in and out of range
RegimeBytes == 0 .. 6 \cup {255}
\* (base spread, widening spread, max spread, mark price) of the vol and
\* macro tests
RegimeCfgs ==
  {<<20, 40, 200, 5000000>>, <<20, 30, 200, 45000000>>,
   <<100, 200, 150, 5000000>>, <<20, 33, 200, 4000000>>}

\* total spread and execution price of the vol and macro matchers for a
\* stored regime byte
calcRegime ==
  \E variant \in {"vol", "macro"}, regime \in RegimeBytes,
     cfg \in RegimeCfgs, signal_adj \in {0, 30} :
    LET c == [ZeroCtx(CTX_SIZE) EXCEPT
                !.base = cfg[1], !.widen = cfg[2], !.max = cfg[3],
                !.price = cfg[4], !.regime = regime,
                !.signal_adj = IF variant = "macro" THEN signal_adj ELSE 0]
        spread == IF variant = "vol" THEN vol_total_spread(c)
                  ELSE macro_total_spread(c)
    IN /\ calc = NoCalc
       /\ calc' = [fn |-> "regime", variant |-> variant, c |-> c,
                   spread |-> spread,
                   price |-> compute_exec_price(c.price, spread)]
       /\ UNCHANGED <<ctx, now, call, solver>>

\* real rates in basis points
RealRates == -MaxRealRate .. MaxRealRate

\* the keeper turns a real rate into a mark price
calcMarkPrice ==
  \E r \in RealRates :
    /\ calc = NoCalc
    /\ calc' = [fn |-> "mark", realRateBps |-> r,
                markPrice |-> computeMarkPrice(r)]
    /\ UNCHANGED <<ctx, now, call, solver>>

\* the detector has seen at most this many readings before the cycle
MaxSamples == 2

\* FRED readings (SOFR, breakeven inflation) in basis points
Readings == {<<430, 230>>, <<500, 230>>, <<430, 300>>, <<200, 300>>}

\* the detector after the keeper has processed a sequence of readings
RECURSIVE DetectorAfter(_)
DetectorAfter(readings) ==
  IF readings = <<>> THEN NewDetector
  ELSE LET f == fetchRealRate(readings[Len(readings)])
       IN detect(DetectorAfter(SubSeq(readings, 1, Len(readings) - 1)),
                 f.nominalBps, f.inflationBps, f.realRateBps).det

ReadingSeqs == UNION {[1 .. n -> Readings] : n \in 0 .. MaxSamples}

\* an initialized macro context whose oracle is key 1
KeeperCtx ==
  process_init("macro", ZeroCtx(CTX_SIZE),
               CHOOSE a \in InitArgsOf("macro", {1}, {1}, {<<20, 40, 200>>},
                                        {0}, {<<0, 0, 0, 0>>}) : TRUE).ctx

\* two keeper cycles in a row on the same FRED reading
calcKeeperTwice ==
  \E past \in ReadingSeqs, reading \in Readings :
    LET first == syncOracle(DetectorAfter(past), KeeperCtx, reading, 1, 10)
        second == syncOracle(first.det, first.ctx, reading, 1, 20)
    IN /\ calc = NoCalc
       /\ calc' = [fn |-> "keeper", past |-> past, reading |-> reading,
                   first |-> first.data, second |-> second.data,
                   once |-> first.ctx, twice |-> second.ctx]
       /\ UNCHANGED <<ctx, now, call, solver>>

\* unix times around an expiry
MaxExpiry == 12
ExpiryTimes == 0 .. MaxExpiry

\* the command's status and the matcher's expiry step for the same record
\* at the same time
calcExpiry ==
  \E t \in ExpiryTimes, expiry \in ExpiryTimes :
    /\ calc = NoCalc
    /\ calc' = [fn |-> "expiry", now |-> t, expiry |-> expiry,
                status |-> checkCompliance(t, expiry),
                accepted |-> ~isKycExpired(expiry, t)]
    /\ UNCHANGED <<ctx, now, call, solver>>

\* the evaluation is over; the next one starts afresh
calcReturn ==
  /\ calc # NoCalc
  /\ calc' = NoCalc
  /\ UNCHANGED <<ctx, now, call, solver>>

NextCalc ==
  \/ calcReturn
  \/ calcRoundTrip
  \/ calcEdge
  \/ calcRegime
  \/ calcMarkPrice
  \/ calcKeeperTwice
  \/ calcExpiry

SpecCalc == Init /\ [][NextCalc]_vars

----------------------------------------------------------------------------
(* Properties *)

\* C1: the security verification of a Match examines the call in the order
\* signer, tag and size, stored key: an unsigned call gets
\* MissingRequiredSignature; a signed call on an account shorter than 320
\* bytes or with another tag gets UninitializedAccount; a signed call on a
\* context of the right tag with a key other than the stored one gets
\* InvalidAccountData; and none of the three is returned when all checks pass.
C1_VerificationOrder ==
  [][call'.op = "Match" =>
       IF ~call'.signer THEN call'.res = "MissingRequiredSignature"
       ELSE IF ctx.size < CTX_SIZE \/ ctx.magic # Magic(call'.prog)
         THEN call'.res = "UninitializedAccount"
       ELSE IF call'.key # ctx.lp_pda THEN call'.res = "InvalidAccountData"
       ELSE call'.res \notin {"MissingRequiredSignature",
                              "UninitializedAccount", "InvalidAccountData"}
    ]_vars

\* a signed Match reached the third check and failed it
C1_Witness ==
  /\ call.op = "Match" /\ call.signer /\ call.res = "InvalidAccountData"
  /\ ctx.magic = Magic(call.prog) /\ call.key # ctx.lp_pda

C3_SyncNeedsSignedUpdater ==
  [][(call'.op = "Sync" /\ ctx' # ctx) =>
       (call'.signer /\
        call'.key = IF ctx.magic = JPY_MAGIC THEN ctx.lp_pda ELSE ctx.oracle)
    ]_vars

\* C4: an Init on a context whose magic is non-zero fails and leaves the
\* context unchanged.
C4_InitOnlyOnce ==
  [][(call'.op = "Init" /\ IsInitialized(ctx)) =>
       (call'.res # "Ok" /\ ctx' = ctx)]_vars

\* a second Init on an initialized 320-byte context, by another program and
\* another key than the first, was refused
C4_Witness ==
  /\ call.op = "Init" /\ call.res = "AccountAlreadyInitialized"
  /\ ctx.magic # Magic(call.prog) /\ ctx.lp_pda # call.key

\* C5: once a context is initialized, its magic and its stored LP PDA never
\* change.
C5_HeaderImmutable ==
  [][(ctx.size >= CTX_SIZE /\ IsInitialized(ctx)) =>
       (ctx'.magic = ctx.magic /\ ctx'.lp_pda = ctx.lp_pda)]_vars

\* an initialized event context was synced, then resolved by its oracle
C5_Witness ==
  /\ call.op = "Tag4" /\ call.res = "Ok" /\ ctx.magic = EVENT_MAGIC
  /\ ctx.last_update = 0 /\ ctx.severity = 1 /\ ctx.lp_pda # ctx.oracle

\* C6: after a successful Match the markup in the return buffer is at most
\* floor(mark * max_spread_bps / 10000), i.e. the total spread was at most
\* max_spread_bps and the execution price at most
\* floor(mark * (10000 + max_spread_bps) / 10000).
C6_SpreadCapped ==
  (call.op = "Match" /\ call.res = "Ok") =>
    ctx.ret - ctx.price <= MulDiv(ctx.max, ctx.price, BPS_DENOM)

\* an event Match at an extreme probability, where base plus edge spread
\* exceeds the maximum, was priced exactly at the cap
C6_Witness ==
  /\ call.op = "Match" /\ call.res = "Ok" /\ ctx.magic = EVENT_MAGIC
  /\ ctx.price = 10000 /\ ctx.max = 200 /\ ctx.ret = 10200
  /\ ctx.base + MulDiv(ctx.widen, edge_factor(ctx.price), EDGE_SCALE) > ctx.max

C8_CountersMonotone ==
  [][/\ ctx'.total_trades >= ctx.total_trades
     /\ ctx'.total_volume >= ctx.total_volume
     /\ (ctx'.total_trades # ctx.total_trades \/
         ctx'.total_volume # ctx.total_volume)
          => (call'.op = "Match" /\ call'.res = "Ok")
    ]_vars

\* a macro context with two trades counted went through a successful
\* RegimeUpdate
C8_Witness ==
  /\ call.op = "Tag4" /\ call.res = "Ok" /\ ctx.magic = MACRO_MAGIC
  /\ ctx.total_trades = 2 /\ ctx.total_volume = 200

\* C9: once an event market is resolved it stays resolved, and every Match
\* and Sync on it fails.
C9_ResolvedIsTerminal ==
  [][(ctx.magic = EVENT_MAGIC /\ ctx.is_resolved # 0) =>
       /\ ctx'.is_resolved = ctx.is_resolved
       /\ call'.op \in {"Match", "Sync"} => call'.res # "Ok"
    ]_vars

\* a signed ProbabilitySync of the event program on a resolved market failed
C9_Witness ==
  /\ ctx.magic = EVENT_MAGIC /\ ctx.is_resolved = 1
  /\ call.op = "Sync" /\ call.prog = "event" /\ call.signer
  /\ call.key = ctx.oracle /\ call.res = "MarketResolved"

C11_ZeroSignalBlocksMatch ==
  [][(call'.op = "Match" /\ ctx.price = 0) =>
       (call'.res # "Ok" /\ ctx'.ret = ctx.ret)]_vars

\* C12: a vol Match is rejected whenever the cached signal is more than 100
\* slots old and is never rejected as stale when it is 100 slots old or
\* less; a Match by the LP on a synced context whose last Sync is at most 100
\* slots old is priced (or fails on arithmetic only), whatever was rejected
\* before that Sync.
C12_VolStalenessWindow ==
  [][(call'.op = "Match" /\ call'.prog = "vol" /\ ctx.size >= CTX_SIZE /\
      ctx.magic = VOL_MAGIC) =>
       /\ now - ctx.last_update > 100 => call'.res # "Ok"
       /\ now - ctx.last_update <= 100 => call'.res # "OracleStale"
       /\ (now - ctx.last_update <= 100 /\ ctx.price # 0 /\ call'.signer /\
           call'.key = ctx.lp_pda)
            => call'.res \in {"Ok", "ArithmeticOverflow"}
    ]_vars

\* the context was synced again after its first data had gone stale, and a
\* Match exactly 100 slots after that Sync was priced
C12_Witness ==
  /\ call.op = "Match" /\ call.prog = "vol" /\ call.res = "Ok"
  /\ ctx.last_update = 101 /\ now = 201 /\ ctx.regime = 2
  /\ ctx.ret = 45270000

\* C13 (as stated): an authorized jpy Match on a priced context reports the
\* first failing check in the order KYC tier, expiry, blocked jurisdiction,
\* same jurisdiction, daily volume cap; a trade that violates both the
\* same-jurisdiction rule and the cap gets JurisdictionMismatch.
C13_ComplianceOrder ==
  [][(call'.op = "Match" /\ call'.prog = "jpy" /\ ctx.size >= CTX_SIZE /\
      ctx.magic = JPY_MAGIC /\ call'.signer /\ call'.key = ctx.lp_pda /\
      ctx.price # 0) =>
       LET u == call'.user
       IN IF u.kyc < ctx.min_kyc THEN call'.res = "InsufficientKycLevel"
          ELSE IF now > u.expiry THEN call'.res = "KycExpired"
          ELSE IF isJurisdictionBlocked(u.jur, ctx.blocked)
            THEN call'.res = "JurisdictionBlocked"
          ELSE IF ctx.same_jur = 1 /\ call'.lp_jur >= 0 /\
                  call'.lp_jur # u.jur
            THEN call'.res = "JurisdictionMismatch"
          ELSE IF ctx.daily_cap > 0 /\
                  effective_day_volume(ctx, now) + call'.size > ctx.daily_cap
            THEN call'.res = "DailyVolumeLimitExceeded"
          ELSE call'.res \notin {"InsufficientKycLevel", "KycExpired",
                                 "JurisdictionBlocked", "JurisdictionMismatch",
                                 "DailyVolumeLimitExceeded"}
    ]_vars

C16_DailyReset ==
  [][(ctx.size >= CTX_SIZE /\ ctx.magic = JPY_MAGIC) =>
       /\ ctx'.day_reset # ctx.day_reset =>
            /\ call'.op = "Match" /\ call'.prog = "jpy" /\ call'.res = "Ok"
            /\ now > ctx.day_reset + DAY_SECONDS
       /\ (call'.op = "Match" /\ call'.prog = "jpy" /\ call'.res = "Ok") =>
            IF now > ctx.day_reset + DAY_SECONDS
              THEN ctx'.day_reset = now /\ ctx'.day_volume = call'.size
              ELSE /\ ctx'.day_reset = ctx.day_reset
                   /\ ctx'.day_volume = ctx.day_volume + call'.size
    ]_vars

\* the window was restarted at 86401 and, exactly one day later, a second
\* Match was added to the volume accepted after the restart
C16_Witness ==
  /\ call.op = "Match" /\ call.prog = "jpy" /\ call.res = "Ok"
  /\ ctx.day_reset = DAY_SECONDS + 1 /\ now = 2 * DAY_SECONDS + 1
  /\ ctx.day_volume = 200

\* C17 (as stated): an Init whose base spread is greater than its max spread
\* fails and leaves the magic zero, so an Init succeeds only with
\* base <= max and every initialized context has base <= max.
C17_InitValidatesSpread ==
  [][/\ (call'.op = "Init" /\ call'.res = "Ok") => ctx'.base <= ctx'.max
     /\ (call'.op = "Init" /\ call'.res # "Ok") => ctx'.magic = ctx.magic
     /\ (ctx'.size >= CTX_SIZE /\ IsInitialized(ctx')) =>
          ctx'.base <= ctx'.max
    ]_vars


C19_InvalidIntentDropped ==
  [][/\ \A s \in IntentSeqs :
          (solver'.sent[s] # solver.sent[s] \/
           solver'.executed[s] # solver.executed[s]) =>
            /\ solver.cur.seq = s
            /\ ~(solver.validatedAt > solver.cur.deadline)
            /\ solver.cur.maxSlippageBps <= maxSlippageBps
     /\ solver'.taken # solver.taken =>
          LET d == decryptIntent(Head(solver.intentQueue))
          IN (d # NoIntent /\ (now > d.deadline \/
                               d.maxSlippageBps > maxSlippageBps)) =>
               /\ solver'.cur = NoIntent /\ solver'.pc = "poll"
               /\ \A i \in 1 .. Len(solver'.intentQueue) :
                    solver'.intentQueue[i].seq # d.seq
    ]_vars

\* C19 amended: a deadline counts only when it is positive (0 or a negative
\* value means no deadline).  The solver sends a signal update or executes a
\* trade only for the intent in flight, whose positive deadline, if any, had
\* not passed when it was validated and whose maxSlippageBps is not above the
\* configured one; a decrypted intent taken from the queue past its positive
\* deadline or with a looser slippage is dropped.
C19_PositiveDeadlineEnforced ==
  [][/\ \A s \in IntentSeqs :
          (solver'.sent[s] # solver.sent[s] \/
           solver'.executed[s] # solver.executed[s]) =>
            /\ solver.cur.seq = s
            /\ ~(solver.cur.deadline > 0 /\
                 solver.validatedAt > solver.cur.deadline)
            /\ solver.cur.maxSlippageBps <= maxSlippageBps
     /\ solver'.taken # solver.taken =>
          LET d == decryptIntent(Head(solver.intentQueue))
          IN (d # NoIntent /\ ((d.deadline > 0 /\ now > d.deadline) \/
                               d.maxSlippageBps > maxSlippageBps)) =>
               /\ solver'.cur = NoIntent /\ solver'.pc = "poll"
               /\ \A i \in 1 .. Len(solver'.intentQueue) :
                    solver'.intentQueue[i].seq # d.seq
    ]_vars

\* the intent taken last decrypts, has a size and the configured slippage,
\* and was taken a second after its deadline: it was dropped with no signal
\* update and no execution, while an earlier intent was executed
C19_Witness ==
  /\ solver.last.seq = 2 /\ solver.last.payload.opens
  /\ solver.last.payload.deadline = 2 /\ now = 3
  /\ solver.last.payload.size # 0
  /\ solver.last.payload.maxSlippageBps = maxSlippageBps
  /\ solver.taken[2] = 1 /\ solver.sent[2] = 0 /\ solver.executed[2] = 0
  /\ solver.pc = "poll" /\ solver.cur = NoIntent
  /\ solver.executed[1] = 1


\* C20: every intent added to the queue is returned by shift() at most once
\* and executeTrade runs for it at most once, however addIntent calls and
\* the steps of the poll cycles interleave; once taken it is never in the
\* queue again, and once its cycle has ended (dropped at decryption or
\* validation, failed signal update, or executed) it is never in flight
\* again and gets no further signal update or execution.
C20_AtMostOnce ==
  [][\A s \in IntentSeqs :
       /\ solver'.taken[s] <= 1
       /\ solver'.executed[s] <= 1
       /\ solver'.executed[s] <= solver'.taken[s]
       /\ solver.taken[s] >= 1 =>
            \A i \in 1 .. Len(solver'.intentQueue) :
              solver'.intentQueue[i].seq # s
       /\ (solver'.sent[s] # solver.sent[s] \/
           solver'.executed[s] # solver.executed[s]) => solver.cur.seq = s
       /\ (solver.taken[s] >= 1 /\ solver.cur.seq # s) => solver'.cur.seq # s
    ]_vars

\* two intents were added and each taken once: the signal update of the
\* first failed and it was not executed, the second was executed once; the
\* queue is empty and no cycle is in flight
C20_Witness ==
  /\ solver.added = 2 /\ solver.intentQueue = <<>>
  /\ solver.taken[1] = 1 /\ solver.sent[1] = 1 /\ solver.executed[1] = 0
  /\ solver.taken[2] = 1 /\ solver.sent[2] = 1 /\ solver.executed[2] = 1
  /\ solver.pc = "poll" /\ solver.cur = NoIntent


\* C21: an intent with any signed two-word size, any u16 maxSlippageBps and
\* any signed one-word deadline, serialized, encrypted to the solver's
\* public key, decrypted with the returned nonce and ephemeral key and the
\* solver's secret key, and deserialized, comes back with the same size,
\* maxSlippageBps and deadline.
C21_IntentRoundTrip ==
  (calc.fn = "roundtrip" /\ calc.openKey = calc.solverKey) =>
    calc.parsed = calc.intent


\* C22: the edge factor, on chain and in the replica, is exactly 1,000,000
\* at p = 500,000, never above 10,000,000, equal to 10,000,000 at p = 0,
\* p = 1,000,000 and p = 10,000, and the same at p and at 1,000,000 - p.
C22_EdgeFactorShape ==
  calc.fn = "edge" =>
    /\ calc.chain <= EDGE_FACTOR_CAP /\ calc.replica <= EDGE_FACTOR_CAP
    /\ calc.chain > 0 /\ calc.replica > 0
    /\ calc.p = 500000 => (calc.chain = 1000000 /\ calc.replica = 1000000)
    /\ calc.p \in {0, 10000, MAX_PROBABILITY} =>
         (calc.chain = EDGE_FACTOR_CAP /\ calc.replica = EDGE_FACTOR_CAP)
    /\ calc.chain = calc.chain_mirror
    /\ calc.replica = calc.replica_mirror

\* the factor at 1% is at the cap, on chain and in the replica
C22_Witness ==
  /\ calc.fn = "edge" /\ calc.p = 10000
  /\ calc.chain = EDGE_FACTOR_CAP /\ calc.replica = EDGE_FACTOR_CAP
  /\ calc.chain_mirror = EDGE_FACTOR_CAP

\* C23: at every probability the replica's edge factor equals the on-chain
\* edge factor (integer edge_denominator = p * (1e6 - p) * 4 / 1e12), and so
\* do the total spread and the execution price.
C23_ReplicaEqualsOnChain ==
  calc.fn = "edge" =>
    /\ calc.replica = calc.chain
    /\ calc.replica_spread = calc.chain_spread
    /\ calc.replica_price = calc.chain_price


\* C24: in the vol and macro variants the widening term is
\* floor(widening spread * multiplier / 100), the multiplier being
\* 50/75/100/150/250 for vol regimes 0..4 and 60/100/200/125 for macro
\* regimes 0..3, and 100 for every regime byte out of range; the total
\* spread is the base plus the widening (plus the macro signal adjustment)
\* capped at the maximum.  Mark 5,000,000, base 20, regime spread 40, max
\* 200, Crisis: total spread 100, execution price 5,050,000.
C24_RegimeWidening ==
  calc.fn = "regime" =>
    LET r == calc.c.regime
        m == IF calc.variant = "vol"
             THEN (IF r \in 0 .. 4 THEN <<50, 75, 100, 150, 250>>[r + 1]
                   ELSE 100)
             ELSE (IF r \in 0 .. 3 THEN <<60, 100, 200, 125>>[r + 1]
                   ELSE 100)
        widening == (calc.c.widen * m) \div 100
    IN /\ calc.spread =
            Min(calc.c.base + widening + calc.c.signal_adj, calc.c.max)
       /\ (calc.variant = "macro" /\ r = 2 /\ calc.c.price = 5000000 /\
           calc.c.base = 20 /\ calc.c.widen = 40 /\ calc.c.max = 200 /\
           calc.c.signal_adj = 0) =>
            (calc.spread = 100 /\ calc.price = 5050000)

\* the macro scenario in the Crisis regime
C24_Witness ==
  /\ calc.fn = "regime" /\ calc.variant = "macro" /\ calc.c.regime = 2
  /\ calc.c.price = 5000000 /\ calc.c.base = 20 /\ calc.c.widen = 40
  /\ calc.c.max = 200 /\ calc.c.signal_adj = 0
  /\ calc.spread = 100 /\ calc.price = 5050000


\* C25: the price a successful jpy Match returns is the oracle price marked
\* up by min(max(base spread - d, 0), max spread), where d is the KYC
\* discount for an Institutional counterparty and 0 for Basic, Standard and
\* Enhanced; the spread is never negative.  Base 20, discount 5: 15 for
\* Institutional and 20 for Basic.
C25_KycDiscount ==
  [][(call'.op = "Match" /\ call'.prog = "jpy" /\ call'.res = "Ok") =>
       LET d == IF call'.user.kyc = 3 THEN ctx.widen ELSE 0
           spread == Min(Max(ctx.base - d, 0), ctx.max)
       IN /\ spread >= 0
          /\ ctx'.ret = ctx.price + MulDiv(spread, ctx.price, BPS_DENOM)
          /\ (ctx.base = 20 /\ ctx.widen = 5 /\ ctx.max = 100) =>
               spread = IF call'.user.kyc = 3 THEN 15 ELSE 20
    ]_vars

\* an Institutional counterparty was priced with a discount above the base
\* spread: the spread is 0 and the price is the oracle price
C25_Witness ==
  /\ call.op = "Match" /\ call.prog = "jpy" /\ call.res = "Ok"
  /\ call.user.kyc = 3 /\ ctx.base = 20 /\ ctx.widen = 40
  /\ ctx.price = 1000000 /\ ctx.ret = 1000000


\* C26: for every integer real rate r in basis points the macro mark price
\* is (r + 500) * 10,000 when r > -500 and 0 when r <= -500; it is never
\* negative, and it is 5,000,000 at r = 0.
C26_MarkPrice ==
  calc.fn = "mark" =>
    /\ calc.markPrice >= 0
    /\ calc.realRateBps > -500 =>
         calc.markPrice = 10000 * calc.realRateBps + 5000000
    /\ calc.realRateBps <= -500 => calc.markPrice = 0
    /\ calc.realRateBps = 0 => calc.markPrice = 5000000

\* a real rate of -6.00% is floored to a mark price of 0
C26_Witness ==
  calc.fn = "mark" /\ calc.realRateBps = -600 /\ calc.markPrice = 0


\* C27: on a vol context, whatever the order of Sync and Match calls, a
\* successful Sync writes mark price, regime and update slot from its own
\* data in one step and no other call changes them, so a successful Match
\* returns the price computed from the fields of the latest successful Sync,
\* all from the same Sync; a Match never waits: it returns at once, priced
\* from the stored values when they are set and fresh, rejected otherwise.
C27_MatchReadsLatestSync ==
  [][(ctx.size >= CTX_SIZE /\ ctx.magic = VOL_MAGIC) =>
       /\ IF call'.op = "Sync" /\ call'.res = "Ok"
            THEN /\ ctx'.price = call'.data.vol_bps * VOL_MARK_SCALE
                 /\ ctx'.regime = call'.data.regime
                 /\ ctx'.last_update = now
            ELSE /\ ctx'.price = ctx.price
                 /\ ctx'.regime = ctx.regime
                 /\ ctx'.last_update = ctx.last_update
       /\ (call'.op = "Match" /\ call'.res = "Ok") =>
            LET m == IF ctx.regime \in 0 .. 4
                     THEN <<50, 75, 100, 150, 250>>[ctx.regime + 1] ELSE 100
                spread == Min(ctx.base + (ctx.widen * m) \div 100, ctx.max)
            IN /\ ctx.price # 0
               /\ now - ctx.last_update <= VOL_STALE_SLOTS
               /\ ctx'.ret = ctx.price + MulDiv(spread, ctx.price, BPS_DENOM)
       /\ (call'.op = "Match" /\ call'.signer /\ call'.key = ctx.lp_pda) =>
            /\ call'.res \in {"Ok", "OracleNotSynced", "OracleStale",
                              "ArithmeticOverflow"}
            /\ call'.res = "OracleNotSynced" <=> ctx.price = 0
            /\ call'.res = "OracleStale" <=>
                 (ctx.price # 0 /\ now - ctx.last_update > VOL_STALE_SLOTS)
    ]_vars

\* a Match priced in the Extreme regime from a mark of 45% volatility, both
\* written by one Sync a full staleness window earlier
C27_Witness ==
  /\ call.op = "Match" /\ call.prog = "vol" /\ call.res = "Ok"
  /\ ctx.price = 45000000 /\ ctx.regime = 4 /\ ctx.ret = 45540000
  /\ now = ctx.last_update + VOL_STALE_SLOTS /\ ctx.last_update > 0


\* C28: a keeper sync cycle run twice in a row on the same source data
\* sends the same mark price, severity and spread adjustment both times and
\* leaves the context as a single run does, apart from the update slot.
C28_KeeperIdempotent ==
  calc.fn = "keeper" =>
    /\ calc.second = calc.first
    /\ calc.twice = [calc.once EXCEPT !.last_update = calc.twice.last_update]


\* C29: for every current time and expiry timestamp the check-compliance
\* command reports VALID exactly when the matcher's expiry step accepts the
\* record, that is when the current time is at most the expiry.
C29_CliAgreesWithMatcher ==
  calc.fn = "expiry" =>
    /\ calc.status = "VALID" <=> calc.accepted
    /\ calc.accepted <=> calc.now <= calc.expiry


\* C30: in every poll cycle executeTrade runs only after the OracleUpdate of
\* that cycle was confirmed, and with the price that update carried and the
\* context now holds; a cycle whose update fails ends there, and no trade is
\* executed for its intent then or later.
C30_TradeAfterUpdate ==
  [][/\ \A s \in IntentSeqs :
          /\ solver'.executed[s] # solver.executed[s] =>
               /\ solver.pc = "execute" /\ solver.cur.seq = s
               /\ solver.sent[s] >= 1
               /\ solver'.tradePrice = solver.oraclePrice
               /\ solver'.tradePrice = ctx.price
          /\ (solver.taken[s] >= 1 /\ solver.cur.seq # s) =>
               solver'.executed[s] = solver.executed[s]
     /\ (solver'.pc = "execute" /\ solver.pc # "execute") =>
          /\ solver.pc = "update"
          /\ call'.op = "Sync" /\ call'.prog = "privacy" /\ call'.res = "Ok"
          /\ call'.data.price = solver.oraclePrice
          /\ ctx'.price = solver.oraclePrice
          /\ solver'.oraclePrice = solver.oraclePrice
          /\ solver'.cur = solver.cur
     /\ (solver.pc = "update" /\ solver'.pc \notin {"update", "execute"}) =>
          /\ solver'.pc = "poll" /\ solver'.cur = NoIntent
          /\ solver'.executed = solver.executed
    ]_vars

\* the first intent was executed at the price its update wrote to the
\* context; the update of the second failed and it was not executed
C30_Witness ==
  /\ solver.executed[1] = 1 /\ solver.sent[1] = 1
  /\ solver.tradePrice = fetchOraclePrice /\ ctx.price = fetchOraclePrice
  /\ solver.taken[2] = 1 /\ solver.sent[2] = 1 /\ solver.executed[2] = 0
  /\ solver.pc = "poll" /\ solver.cur = NoIntent
  /\ call.op = "none"

============================================================================
